---- MODULE Spec2Model ----
(***************************************************************************)
(* Model of the guidance core: the scalar feedback controller (pid.rs),    *)
(* the intercept solvers (fighter.rs, target.rs, tracked_target.rs), the   *)
(* single-target and tracked targets, the ship's control tick and the      *)
(* Kalman filter for position and velocity (kalman.rs).                    *)
(*                                                                         *)
(* f64 is modelled as decimal floating point: a finite value is            *)
(* <<"n", m, e>> = m * 10^e with |m| < 10^Digits and no trailing zero in   *)
(* m, every operation rounds its exact result to Digits significant        *)
(* digits (round half to even), and the IEEE special values are            *)
(* <<"inf", 1, 0>>, <<"inf", -1, 0>> and <<"nan", 0, 0>>.  A division by   *)
(* zero, inf - inf, 0 * inf and the square root of a negative give the     *)
(* IEEE results, and every comparison with NaN is false.  The exponent is  *)
(* unbounded (no overflow to infinity, no underflow) and zero is unsigned  *)
(* (every zero divisor in the source is the +0.0 of x - x).                *)
(***************************************************************************)
EXTENDS Integers, Sequences, FiniteSets, TLC

\* Significant decimal digits kept by every floating-point operation.
Digits == 7

(***************************************************************************)
(* Floating point                                                          *)
(***************************************************************************)
Zero == <<"n", 0, 0>>
NaN == <<"nan", 0, 0>>
PosInf == <<"inf", 1, 0>>
NegInf == <<"inf", -1, 0>>

\* The floating-point values.  The arithmetic is written as functions whose
\* intermediate results are arguments of the next stage, so that each
\* intermediate result is computed once.
Fl == {"n", "inf", "nan"} \X Int \X Int

IsNaN(x) == x[1] = "nan"
IsInf(x) == x[1] = "inf"
IsFinite(x) == x[1] = "n"

AbsInt(n) == IF n < 0 THEN -n ELSE n
SgnInt(n) == IF n < 0 THEN -1 ELSE IF n > 0 THEN 1 ELSE 0

\* Number of decimal digits of a natural number below 2^31.
NDigits[n \in Nat] ==
    IF n < 10 THEN 1
    ELSE IF n < 100 THEN 2
    ELSE IF n < 1000 THEN 3
    ELSE IF n < 10000 THEN 4
    ELSE IF n < 100000 THEN 5
    ELSE IF n < 1000000 THEN 6
    ELSE IF n < 10000000 THEN 7
    ELSE IF n < 100000000 THEN 8
    ELSE IF n < 1000000000 THEN 9
    ELSE 10

\* The canonical form of m * 10^e: no trailing zero in m.
Canon[m \in Int, e \in Int] ==
    IF m = 0 THEN Zero
    ELSE IF (m % 10) = 0 THEN Canon[m \div 10, e + 1]
    ELSE <<"n", m, e>>

\* sgn * (q + r / (2 * half) + f) * 10^e rounded to an integer multiple of
\* 10^e, half to even, where f is a positive fraction of the last place of r
\* when sticky and 0 otherwise.
RoundAt[sgn \in Int, q \in Nat, r \in Nat, half \in Nat, sticky \in BOOLEAN, e \in Int] ==
    Canon[sgn * (IF r > half \/ (r = half /\ half > 0 /\ (sticky \/ (q % 2) = 1))
                 THEN q + 1 ELSE q), e]

\* sgn * (M + f) * 10^e rounded by dropping the last s digits of M.
RoundTo[sgn \in Int, M \in Nat, sticky \in BOOLEAN, e \in Int, s \in Nat] ==
    RoundAt[sgn, M \div (10 ^ s), M % (10 ^ s), (10 ^ s) \div 2, sticky, e + s]

\* sgn * (M + f) * 10^e rounded to Digits digits, half to even, where
\* 0 < f < 1 when sticky and f = 0 otherwise.
RoundMag[sgn \in Int, M \in Nat, sticky \in BOOLEAN, e \in Int] ==
    RoundTo[sgn, M, sticky, e,
            IF M < 10 ^ Digits THEN 0 ELSE NDigits[M] - Digits]

\* The f64 nearest to the integer n, and to the decimal literal m * 10^e.
F(n) == RoundMag[SgnInt(n), AbsInt(n), FALSE, 0]
FDec(m, e) == RoundMag[SgnInt(m), AbsInt(m), FALSE, e]

Sgn(x) == IF IsNaN(x) THEN 0 ELSE SgnInt(x[2])

FNegFn[x \in Fl] == <<x[1], -x[2], x[3]>>
FNeg(x) == FNegFn[x]
FAbsFn[x \in Fl] == <<x[1], AbsInt(x[2]), x[3]>>
FAbs(x) == FAbsFn[x]

\* S * 10^ew, less a positive fraction of the last place when sticky, rounded.
AddSum[S \in Int, sticky \in BOOLEAN, ew \in Int] ==
    RoundMag[IF S >= 0 THEN 1 ELSE -1,
             IF S >= 0 THEN S ELSE IF sticky THEN -S - 1 ELSE -S,
             sticky, ew]

\* X * 10^ew + ym * 10^(ew + d): the smaller operand is truncated (towards
\* minus infinity) at 10^ew and what was cut off is remembered as sticky.
AddWork[X \in Int, ym \in Int, d \in Int, ew \in Int] ==
    AddSum[X + (IF d >= 0 THEN ym * (10 ^ d)
                ELSE IF -d >= 10 THEN (IF ym < 0 THEN -1 ELSE 0)
                ELSE ym \div (10 ^ (-d))),
           IF d >= 0 THEN FALSE
           ELSE IF -d >= 10 THEN TRUE
           ELSE (ym % (10 ^ (-d))) # 0,
           ew]

\* x + y with x scaled up by 10^sh to nine digits.
AddAt[x \in Fl, y \in Fl, sh \in Nat] ==
    AddWork[x[2] * (10 ^ sh), y[2], y[3] - (x[3] - sh), x[3] - sh]

\* x + y for finite non-zero x, y with the leading digit of x not below y's.
AddAligned[x \in Fl, y \in Fl] == AddAt[x, y, 9 - NDigits[AbsInt(x[2])]]

\* x + y for finite non-zero x, y; xbig: the leading digit of x is not below y's.
AddOrdered[x \in Fl, y \in Fl, xbig \in BOOLEAN] ==
    AddAligned[IF xbig THEN x ELSE y, IF xbig THEN y ELSE x]

FAddFn[x \in Fl, y \in Fl] ==
    IF IsNaN(x) \/ IsNaN(y) THEN NaN
    ELSE IF IsInf(x) THEN (IF IsInf(y) /\ y[2] # x[2] THEN NaN ELSE x)
    ELSE IF IsInf(y) THEN y
    ELSE IF x[2] = 0 THEN y
    ELSE IF y[2] = 0 THEN x
    ELSE AddOrdered[x, y, x[3] + NDigits[AbsInt(x[2])] >= y[3] + NDigits[AbsInt(y[2])]]

FAdd(x, y) == FAddFn[x, y]
FSub(x, y) == FAddFn[x, FNegFn[y]]

\* sgn * (hi * 10^8 + T) * 10^e rounded, hi having 9 - k digits (k = 8 when
\* hi = 0).
MulNorm[sgn \in Int, hi \in Nat, T \in Nat, e \in Int, k \in Nat] ==
    RoundMag[sgn, hi * (10 ^ k) + (T \div (10 ^ (8 - k))),
             (T % (10 ^ (8 - k))) # 0, e + 8 - k]

MulHi[sgn \in Int, hi \in Nat, T \in Nat, e \in Int] ==
    MulNorm[sgn, hi, T, e, IF hi = 0 THEN 8 ELSE 9 - NDigits[hi]]

MulMid[sgn \in Int, hh \in Nat, mid \in Nat, lo \in Nat, e \in Int] ==
    MulHi[sgn, hh + (mid \div 10000), (mid % 10000) * 10000 + lo, e]

MulLimbs[sgn \in Int, a1 \in Nat, a0 \in Nat, b1 \in Nat, b0 \in Nat, e \in Int] ==
    MulMid[sgn, a1 * b1, a1 * b0 + a0 * b1 + ((a0 * b0) \div 10000),
           (a0 * b0) % 10000, e]

\* sgn * a * b * 10^e for naturals a, b below 10^8, by four-digit limbs.
MulMag[sgn \in Int, a \in Nat, b \in Nat, e \in Int] ==
    MulLimbs[sgn, a \div 10000, a % 10000, b \div 10000, b % 10000, e]

FMulFn[x \in Fl, y \in Fl] ==
    IF IsNaN(x) \/ IsNaN(y) THEN NaN
    ELSE IF IsInf(x) \/ IsInf(y)
         THEN (IF x[2] = 0 \/ y[2] = 0 THEN NaN
               ELSE <<"inf", SgnInt(x[2]) * SgnInt(y[2]), 0>>)
    ELSE IF x[2] = 0 \/ y[2] = 0 THEN Zero
    ELSE MulMag[SgnInt(x[2]) * SgnInt(y[2]), AbsInt(x[2]), AbsInt(y[2]), x[3] + y[3]]

FMul(x, y) == FMulFn[x, y]

\* Long division: quotient digits until nine are known or the division is exact.
LongDiv[q \in Nat, r \in Nat, b \in Nat, e \in Int] ==
    IF r = 0 \/ q >= 100000000 THEN <<q, r # 0, e>>
    ELSE LongDiv[q * 10 + ((r * 10) \div b), (r * 10) % b, b, e - 1]

DivRound[sgn \in Int, d \in Nat \X BOOLEAN \X Int] ==
    RoundMag[sgn, d[1], d[2], d[3]]

\* sgn * (a / b) * 10^e for positive naturals a, b.
DivMag[sgn \in Int, a \in Nat, b \in Nat, e \in Int] ==
    DivRound[sgn, LongDiv[a \div b, a % b, b, e]]

FDivFn[x \in Fl, y \in Fl] ==
    IF IsNaN(x) \/ IsNaN(y) THEN NaN
    ELSE IF IsInf(x)
         THEN (IF IsInf(y) THEN NaN
               ELSE <<"inf", x[2] * (IF y[2] < 0 THEN -1 ELSE 1), 0>>)
    ELSE IF IsInf(y) THEN Zero
    ELSE IF y[2] = 0
         THEN (IF x[2] = 0 THEN NaN ELSE <<"inf", SgnInt(x[2]), 0>>)
    ELSE IF x[2] = 0 THEN Zero
    ELSE DivMag[SgnInt(x[2]) * SgnInt(y[2]), AbsInt(x[2]), AbsInt(y[2]), x[3] - y[3]]

FDiv(x, y) == FDivFn[x, y]

\* Integer square root by bisection: lo^2 <= n < hi^2.
ISqrt[n \in Nat, lo \in Nat, hi \in Nat] ==
    IF hi - lo <= 1 THEN lo
    ELSE IF ((lo + hi) \div 2) * ((lo + hi) \div 2) <= n
         THEN ISqrt[n, (lo + hi) \div 2, hi]
         ELSE ISqrt[n, lo, (lo + hi) \div 2]

\* Digit-by-digit square root: root digits until eight are known or it is
\* exact; d counts down to the largest digit with (20 * root + d) * d <= rem.
SqrtDigits[root \in Nat, rem \in Nat, e \in Int, d \in Nat] ==
    IF rem = 0 \/ root >= 10000000 THEN <<root, rem # 0, e>>
    ELSE IF (20 * root + d) * d > rem * 100 THEN SqrtDigits[root, rem, e, d - 1]
    ELSE SqrtDigits[root * 10 + d, rem * 100 - (20 * root + d) * d, e - 1, 9]

SqrtRound[s \in Nat \X BOOLEAN \X Int] == RoundMag[1, s[1], s[2], s[3]]

SqrtFrom[N \in Nat, e \in Int, r0 \in Nat] ==
    SqrtRound[SqrtDigits[r0, N - r0 * r0, e \div 2, 9]]

\* The square root of N * 10^e for even e and N below 10^9.
SqrtMag[N \in Nat, e \in Int] == SqrtFrom[N, e, ISqrt[N, 0, 31623]]

FSqrtFn[x \in Fl] ==
    IF IsNaN(x) \/ x[2] < 0 THEN NaN
    ELSE IF IsInf(x) THEN PosInf
    ELSE IF x[2] = 0 THEN Zero
    ELSE IF (x[3] % 2) = 1 THEN SqrtMag[x[2] * 10, x[3] - 1]
    ELSE SqrtMag[x[2], x[3]]

FSqrt(x) == FSqrtFn[x]

\* The sign of y - x.
FCmp[x \in Fl, y \in Fl] == Sgn(FAddFn[y, FNegFn[x]])

FLtFn[x \in Fl, y \in Fl] == ~IsNaN(x) /\ ~IsNaN(y) /\ FCmp[x, y] > 0

FLt(x, y) == FLtFn[x, y]
FGt(x, y) == FLtFn[y, x]
FLeFn[x \in Fl, y \in Fl] == ~IsNaN(x) /\ ~IsNaN(y) /\ FCmp[x, y] >= 0
FEqFn[x \in Fl, y \in Fl] == ~IsNaN(x) /\ x = y

FLe(x, y) == FLeFn[x, y]
FGe(x, y) == FLeFn[y, x]
FEq(x, y) == FEqFn[x, y]

\* f64::min and f64::max: a NaN operand is ignored.
FMinFn[x \in Fl, y \in Fl] ==
    IF IsNaN(x) THEN y ELSE IF IsNaN(y) THEN x ELSE IF FLtFn[y, x] THEN y ELSE x
FMaxFn[x \in Fl, y \in Fl] ==
    IF IsNaN(x) THEN y ELSE IF IsNaN(y) THEN x ELSE IF FLtFn[x, y] THEN y ELSE x

FMin(x, y) == FMinFn[x, y]
FMax(x, y) == FMaxFn[x, y]

\* Option<T>: None is the empty tuple and Some(x) the tuple of x.
None == <<>>
Some(x) == <<x>>
IsSome(o) == o # None
Unwrap(o) == o[1]

\* Vec2 is the pair <<x, y>>.
VAdd(a, b) == <<FAdd(a[1], b[1]), FAdd(a[2], b[2])>>
VSub(a, b) == <<FSub(a[1], b[1]), FSub(a[2], b[2])>>
VScale(a, k) == <<FMul(a[1], k), FMul(a[2], k)>>
VDot(a, b) == FAdd(FMul(a[1], b[1]), FMul(a[2], b[2]))
V(x, y) == <<F(x), F(y)>>
VHasNaN(a) == IsNaN(a[1]) \/ IsNaN(a[2])

(***************************************************************************)
(* The intercept solvers (fighter.rs, target.rs, tracked_target.rs)        *)
(***************************************************************************)
BULLET_SPEED == 1000
MAX_ITER == 100

\* The constant-velocity closed form: None, or Some of <<t, aim point>>.
\* Each let of the code is an argument of the operator that models the
\* statements after it.

\* Some((t, r_rel + v_rel * t))
const_vel_aim(r_rel, v_rel, t) == Some(<<t, VAdd(r_rel, VScale(v_rel, t))>>)

\* match (t1 > 0.0, t2 > 0.0)
const_vel_pick(r_rel, v_rel, t1, t2, p1, p2) ==
    IF p1 /\ p2 THEN const_vel_aim(r_rel, v_rel, FMin(t1, t2))
    ELSE IF p1 THEN const_vel_aim(r_rel, v_rel, t1)
    ELSE IF p2 THEN const_vel_aim(r_rel, v_rel, t2)
    ELSE None

const_vel_roots(r_rel, v_rel, t1, t2) ==
    const_vel_pick(r_rel, v_rel, t1, t2, FGt(t1, Zero), FGt(t2, Zero))

\* let (t1, t2) = ((-b - sqrt_disc) / (2.0 * a), (-b + sqrt_disc) / (2.0 * a))
const_vel_sqrt(r_rel, v_rel, a, b, sqrt_disc) ==
    const_vel_roots(r_rel, v_rel,
                    FDiv(FSub(FNeg(b), sqrt_disc), FMul(F(2), a)),
                    FDiv(FAdd(FNeg(b), sqrt_disc), FMul(F(2), a)))

\* if disc < 0.0 { return None }; let sqrt_disc = disc.sqrt()
const_vel_disc(r_rel, v_rel, a, b, disc) ==
    IF FLt(disc, Zero) THEN None
    ELSE const_vel_sqrt(r_rel, v_rel, a, b, FSqrt(disc))

\* let disc = b * b - 4.0 * a * c
const_vel_coeffs(r_rel, v_rel, a, b, c) ==
    const_vel_disc(r_rel, v_rel, a, b,
                   FSub(FMul(b, b), FMul(FMul(F(4), a), c)))

firing_solution_const_vel(r_rel, v_rel, bullet_speed) ==
    const_vel_coeffs(r_rel, v_rel,
                     FSub(VDot(v_rel, v_rel), FMul(bullet_speed, bullet_speed)),
                     FMul(F(2), VDot(v_rel, r_rel)),
                     VDot(r_rel, r_rel))

\* fighter.rs carries its own copy of the closed form.
firing_solution(r_rel, v_rel, bullet_speed) ==
    firing_solution_const_vel(r_rel, v_rel, bullet_speed)

\* The Newton loop of firing_solution_const_accel on the quartic
\* p[1] + p[2] t + ... + p[5] t^4.  A loop state is the iterate t, the number
\* of passes started and why the loop was left ("run" while it has not been).

\* The rest of a pass once the step t_next is known: the convergence test.
NewtonNext(tol, t, n, t_next) ==
    IF FLt(FAbs(FSub(t_next, t)), tol)
    THEN [t |-> t, iters |-> n + 1, exit |-> "converged"]
    ELSE [t |-> t_next, iters |-> n + 1, exit |-> "run"]

\* The rest of a pass once f(t) and f'(t) are known: the flat-slope test and
\* the Newton step.
NewtonStep(tol, t, n, f, df) ==
    IF FLt(FAbs(df), FDec(1, -6))
    THEN [t |-> t, iters |-> n + 1, exit |-> "flat"]
    ELSE NewtonNext(tol, t, n, FSub(t, FDiv(f, df)))

\* f(t) and f'(t) as the code's Horner forms.
NewtonF(p, t) ==
    FAdd(FMul(FAdd(FMul(FAdd(FMul(FAdd(FMul(p[5], t), p[4]), t),
                             p[3]), t), p[2]), t), p[1])

NewtonDf(p, t) ==
    FAdd(FAdd(FMul(FMul(FAdd(FMul(FMul(F(4), p[5]), t),
                             FMul(F(3), p[4])), t), t),
              FMul(FMul(F(2), p[3]), t)), p[2])

\* One pass of the loop body; a loop that was left stays left.
NewtonPass(p, tol, s) ==
    IF s.exit # "run" THEN s
    ELSE NewtonStep(tol, s.t, s.iters, NewtonF(p, s.t), NewtonDf(p, s.t))

\* The loop states.
NewtonState == [t : Fl, iters : Nat, exit : {"run", "flat", "converged", "max_iter"}]

\* k passes of the loop from state s: the first half of them, then the rest.
NewtonLoop[p \in Fl \X Fl \X Fl \X Fl \X Fl, tol \in Fl, s \in NewtonState, k \in Nat] ==
    IF k = 0 THEN s
    ELSE IF k = 1 THEN NewtonPass(p, tol, s)
    ELSE NewtonLoop[p, tol, NewtonLoop[p, tol, s, k \div 2], k - (k \div 2)]

\* After MAX_ITER passes the loop falls through and t is returned.
NewtonEnd(s) == IF s.exit = "run" THEN [s EXCEPT !.exit = "max_iter"] ELSE s

\* The loop with one pass more than MAX_ITER.
Newton_OneMore(p, tol, t_guess) ==
    NewtonEnd(NewtonLoop[p, tol, [t |-> t_guess, iters |-> 0, exit |-> "run"],
                         MAX_ITER + 1])

Newton(p, tol, t_guess) ==
    NewtonEnd(NewtonLoop[p, tol, [t |-> t_guess, iters |-> 0, exit |-> "run"],
                         MAX_ITER])

\* The quartic's coefficients <<p0, p1, p2, p3, p4>>.
Quartic(r_rel, v_rel, a_rel, bullet_speed) ==
    << VDot(r_rel, r_rel),
       FMul(F(2), VDot(r_rel, v_rel)),
       FSub(FAdd(VDot(v_rel, v_rel), VDot(r_rel, a_rel)),
            FMul(bullet_speed, bullet_speed)),
       VDot(v_rel, a_rel),
       FMul(FDec(5, -1), VDot(a_rel, a_rel)) >>

firing_solution_const_accel(r_rel, v_rel, a_rel, bullet_speed, t_guess, tol) ==
    Newton(Quartic(r_rel, v_rel, a_rel, bullet_speed), tol, t_guess).t

(***************************************************************************)
(* pid.rs: the scalar feedback controller                                  *)
(***************************************************************************)
VARIABLES
    pid,      \* the controller: gains kp, ki, kd, integral, prev_error
    call,     \* the last call made on the controller and how it ended
    hist,     \* the update calls that returned since construction or reset
    epoch,    \* what started hist: construction or a reset (of a used controller)
    ship,     \* the Ship: its controller
    tick,     \* the last Ship::tick: what it read and the commands it issued
    ticks,    \* the number of Ship::tick calls so far
    solver,   \* one r, v, s put through the solvers, and what they returned
    kind,     \* what the run is about: "Target", "TrackedTarget", "TrackedPair"
    obj,      \* that object, or the two objects of the pair
    tcall,    \* the last call made on it and the solvers the call used
    steps,    \* the number of calls made on it so far
    kf,       \* the KalmanPosVel2d
    truth,    \* the true motion it is given measurements of: where it started,
              \* where it is and its constant velocity
    fused,    \* the number of predict_and_update calls so far
    coasts    \* the number of predict calls so far

pidVars == <<pid, call, hist, epoch>>
shipVars == <<ship, tick, ticks>>
solverVars == <<solver>>
targetVars == <<kind, obj, tcall, steps>>
kalmanVars == <<kf, truth, fused, coasts>>
vars == <<pid, call, hist, epoch, ship, tick, ticks, solver, kind, obj, tcall, steps,
          kf, truth, fused, coasts>>

\* How a call ends: by returning a value, or by a panic.
Returned(v) == <<"ok", v>>
Panicked == <<"panic">>
NoCall == <<"none">>

Pid_new(kp, ki, kd) ==
    [kp |-> kp, ki |-> ki, kd |-> kd, integral |-> Zero, prev_error |-> None]

\* A reset that forgets to clear the accumulator.
Pid_reset_KeepIntegral(p) == [p EXCEPT !.prev_error = None]

\* A reset that forgets to clear the derivative memory.
Pid_reset_KeepPrev(p) == [p EXCEPT !.integral = Zero]

Pid_reset(p) == [p EXCEPT !.integral = Zero, !.prev_error = None]

\* The precondition checked with >= instead of >.
DtValid_AllowZero(dt) == FGe(dt, Zero)

\* assert!(dt > 0.0)
DtValid(dt) == FGt(dt, Zero)

\* The increment always rectangular.
IntegralIncrement_Rect(prev_error, error, dt) == FMul(error, dt)

IntegralIncrement(prev_error, error, dt) ==
    IF IsSome(prev_error)
    THEN FMul(FMul(FDec(5, -1), FAdd(error, Unwrap(prev_error))), dt)
    ELSE FMul(error, dt)

Derivative(prev_error, error, dt) ==
    IF IsSome(prev_error)
    THEN FDiv(FSub(error, Unwrap(prev_error)), dt)
    ELSE Zero

\* The integral term without its gain.
IntegralTerm_NoGain(ki, integral) == integral

IntegralTerm(ki, integral) == FMul(ki, integral)

\* update(error, dt): the controller after the call and how the call ended.
Pid_update(p, error, dt) ==
    IF ~DtValid(dt)
    THEN [pid |-> p, ret |-> Panicked]
    ELSE LET P == FMul(p.kp, error)
             integral == FAdd(p.integral, IntegralIncrement(p.prev_error, error, dt))
             I == IntegralTerm(p.ki, integral)
             D == FMul(p.kd, Derivative(p.prev_error, error, dt))
         IN  [pid |-> [p EXCEPT !.integral = integral, !.prev_error = Some(error)],
              ret |-> Returned(FAdd(FAdd(P, I), D))]

\* Bound on the update calls that return between two resets.
MaxCalls == 2

\* The gains of the two unit tests, of Ship::new and one with ki and error free.
Gains ==
    { <<F(1), FDec(5, -1), FDec(1, -1)>>, <<F(1), Zero, Zero>>,
      <<F(8), Zero, F(5)>>, <<F(2), F(3), Zero>> }
Errors == {Zero, F(2), F(-1)}
Dts == {Zero, FDec(-2, -2), FDec(2, -2), FDec(5, -1)}

(***************************************************************************)
(* fighter.rs: the ship's control tick                                     *)
(***************************************************************************)
\* oort_api's tick duration, 1/60 s.
TICK_LENGTH == FDiv(F(1), F(60))

Ship_new == [pid |-> Pid_new(F(8), Zero, F(5))]

\* The fire test with <= for <.
FireCondition_Le(bearing_error, shot_distance) ==
    FLe(FMul(FAbs(bearing_error), shot_distance), F(10))

FireCondition(bearing_error, shot_distance) ==
    FLt(FMul(FAbs(bearing_error), shot_distance), F(10))

\* What a tick issues: the torque, the fire commands (a count), the
\* acceleration and the debug drawings (a count), with the ship after it.
TickResult(sh, sol, be, torque, fire, accel, draws) ==
    [ship |-> sh, sol |-> sol, bearing_error |-> be, torque |-> torque,
     fire |-> fire, accel |-> accel, draws |-> draws]

\* The tick from torque(control) on: upd is what pid.update did.
Ship_tick_commands(sh, r_rel, sol, bearing_error, shot_distance, upd) ==
    TickResult([sh EXCEPT !.pid = upd.pid], sol, Some(bearing_error),
               Some(upd.ret[2]),
               IF FireCondition(bearing_error, shot_distance) THEN 1 ELSE 0,
               Some(VScale(r_rel, F(1000))), 3)

\* A tick that runs the heading controller before it looks for a solution.
Ship_tick_match_ControlFirst(sh, r_rel, sol, bearing_error) ==
    IF sol = None
    THEN TickResult([sh EXCEPT !.pid =
                        Pid_update(sh.pid, bearing_error, TICK_LENGTH).pid],
                    None, None, None, 0, None, 1)
    ELSE Ship_tick_commands(sh, r_rel, sol, bearing_error,
                            FMul(F(BULLET_SPEED), Unwrap(sol)[1]),
                            Pid_update(sh.pid, bearing_error, TICK_LENGTH))

\* The tick from the match on the firing solution on.
Ship_tick_match(sh, r_rel, sol, bearing_error) ==
    IF sol = None
    THEN TickResult(sh, None, None, None, 0, None, 1)
    ELSE Ship_tick_commands(sh, r_rel, sol, bearing_error,
                            FMul(F(BULLET_SPEED), Unwrap(sol)[1]),
                            Pid_update(sh.pid, bearing_error, TICK_LENGTH))

Ship_tick_rel(sh, r_rel, v_rel, bearing_error) ==
    Ship_tick_match(sh, r_rel, firing_solution(r_rel, v_rel, F(BULLET_SPEED)),
                    bearing_error)

\* Ship::tick.  env is what the tick reads of the simulation (target(),
\* position(), target_velocity(), velocity()); bearing_error is the value of
\* angle_diff(heading(), aim_point.angle()), read only when a solution exists.
Ship_tick(sh, env, bearing_error) ==
    Ship_tick_rel(sh, VSub(env.target, env.position),
                  VSub(env.target_velocity, env.velocity), bearing_error)

\* Bound on the ticks of one run.
MaxTicks == 2

Targets == {V(3, 4), V(-3, 0), V(1, 0)}
TargetVelocities == {V(0, 0), V(1000, 0), V(2000, 0), V(600, 800)}
Positions == {V(0, 0), V(1, 0)}
Velocities == {V(0, 0)}
\* Bearing errors in (-pi, pi]; 2 rad at a shot distance of 5 is the threshold.
Bearings == {Zero, F(2), FDec(-5, -1), F(-3)}

\* The bearing errors angle_diff can return for an aim point: NaN when the
\* aim point has a NaN coordinate, any angle (the heading is free) otherwise.
BearingErrors(sol) ==
    IF sol # None /\ VHasNaN(Unwrap(sol)[2]) THEN {NaN} ELSE Bearings

\* The parts of the state a run is not about stay at these values.
NoPid == Pid_new(Zero, Zero, Zero)
NoPidCall == [op |-> "new", error |-> Zero, dt |-> Zero, ret |-> NoCall]
NoEpoch == [kind |-> "new", used |-> FALSE]
NoSolver ==
    [phase |-> "idle", r |-> V(0, 0), v |-> V(0, 0), s |-> Zero,
     a |-> V(0, 0), cv |-> None, guess |-> None, t |-> None, run |-> None]
NoTargetCall == [op |-> "none", calls |-> <<>>]
NoKalman == None
NoTruth == [init |-> V(0, 0), position |-> V(0, 0), velocity |-> V(0, 0)]

NoTick ==
    [env |-> [target |-> V(0, 0), position |-> V(0, 0),
              target_velocity |-> V(0, 0), velocity |-> V(0, 0)],
     sol |-> None, bearing_error |-> None, torque |-> None, fire |-> 0,
     accel |-> None, draws |-> 0]

InitShip ==
    /\ ship = Ship_new
    /\ tick = NoTick
    /\ ticks = 0
    /\ pid = NoPid /\ call = NoPidCall /\ hist = <<>> /\ epoch = NoEpoch
    /\ solver = NoSolver
    /\ kind = "none" /\ obj = None /\ tcall = NoTargetCall /\ steps = 0
    /\ kf = NoKalman /\ truth = NoTruth /\ fused = 0 /\ coasts = 0

\* The tick's effect r recorded; bearing_error has to be a value angle_diff
\* can return for the aim point of the tick's solution.
TickDone(env, bearing_error, r) ==
    /\ bearing_error \in BearingErrors(r.sol)
    /\ ship' = r.ship
    /\ tick' = [env |-> env, sol |-> r.sol, bearing_error |-> r.bearing_error,
                torque |-> r.torque, fire |-> r.fire, accel |-> r.accel,
                draws |-> r.draws]
    /\ ticks' = ticks + 1
    /\ UNCHANGED <<pidVars, solverVars, targetVars, kalmanVars>>

Tick(env, bearing_error) ==
    /\ ticks < MaxTicks
    /\ TickDone(env, bearing_error, Ship_tick(ship, env, bearing_error))

NextShip ==
    \E tg \in Targets, tv \in TargetVelocities, ps \in Positions, vs \in Velocities :
        \E be \in Bearings \cup {NaN} :
            Tick([target |-> tg, position |-> ps,
                  target_velocity |-> tv, velocity |-> vs], be)

(***************************************************************************)
(* mat2.rs: the 2x2 matrices of the covariances                            *)
(***************************************************************************)
Mat2_new(a, b, c, d) == [xx |-> a, xy |-> b, yx |-> c, yy |-> d]
Mat2_identity == Mat2_new(F(1), Zero, Zero, F(1))
Mat2_zero == Mat2_new(Zero, Zero, Zero, Zero)

\* impl Add for Mat2
Mat2_add(m, rhs) ==
    [xx |-> FAdd(m.xx, rhs.xx), xy |-> FAdd(m.xy, rhs.xy),
     yx |-> FAdd(m.yx, rhs.yx), yy |-> FAdd(m.yy, rhs.yy)]

\* impl Mul<f64> for Mat2
Mat2_mul_f64(m, k) ==
    [xx |-> FMul(m.xx, k), xy |-> FMul(m.xy, k),
     yx |-> FMul(m.yx, k), yy |-> FMul(m.yy, k)]

(***************************************************************************)
(* target.rs: a target with a cached firing solution                       *)
(***************************************************************************)
\* What a call did: the object after it and the solvers it called, in order:
\* <<"const_vel", result>> for firing_solution_const_vel and
\* <<"const_accel", t_guess, result>> for firing_solution_const_accel.
Done(self, calls) == [self |-> self, calls |-> calls]

\* position + velocity * t + 0.5 * acceleration * t * t
Extrapolate(r, v, a, t) ==
    VAdd(VAdd(r, VScale(v, t)), VScale(VScale(VScale(a, FDec(5, -1)), t), t))

Target_new(r, v, a) ==
    [position |-> r, velocity |-> v, acceleration |-> a,
     time_to_intercept |-> None, intercept_point |-> None]

Target_update_state(self, r, v, a) ==
    [self EXCEPT !.position = r, !.velocity = v, !.acceleration = a]

\* update_firing_solution from the refined time t on.
Target_refined(self, calls, t_guess, t) ==
    IF FLe(t, Zero)
    THEN Done([self EXCEPT !.time_to_intercept = None, !.intercept_point = None],
              Append(calls, <<"const_accel", t_guess, t>>))
    ELSE Done([self EXCEPT !.time_to_intercept = Some(t),
                           !.intercept_point =
                               Some(Extrapolate(self.position, self.velocity,
                                                self.acceleration, t))],
              Append(calls, <<"const_accel", t_guess, t>>))

\* update_firing_solution from the call of the refiner on.
Target_refine(self, r_rel, v_rel, calls, t_guess) ==
    Target_refined(self, calls, t_guess,
                   firing_solution_const_accel(r_rel, v_rel, self.acceleration,
                                               F(BULLET_SPEED), t_guess,
                                               FDec(1, -4)))

\* The None arm of the match on time_to_intercept, maybe_guess computed.
Target_seed(self, r_rel, v_rel, maybe_guess) ==
    IF IsSome(maybe_guess)
    THEN Target_refine(self, r_rel, v_rel, <<<<"const_vel", maybe_guess>>>>,
                      Unwrap(maybe_guess)[1])
    ELSE Done([self EXCEPT !.time_to_intercept = None, !.intercept_point = None],
              <<<<"const_vel", maybe_guess>>>>)

\* An update that consults the closed form whether a time is cached or not.
Target_update_rel_AlwaysSeed(self, r_rel, v_rel) ==
    Target_seed(self, r_rel, v_rel,
                firing_solution_const_vel(r_rel, v_rel, F(BULLET_SPEED)))

Target_update_rel(self, r_rel, v_rel) ==
    IF IsSome(self.time_to_intercept)
    THEN Target_refine(self, r_rel, v_rel, <<>>, Unwrap(self.time_to_intercept))
    ELSE Target_seed(self, r_rel, v_rel,
                     firing_solution_const_vel(r_rel, v_rel, F(BULLET_SPEED)))

\* Target::update_firing_solution; position and velocity are the ship's
\* position() and velocity().
Target_update_firing_solution(self, position, velocity) ==
    Target_update_rel(self, VSub(self.position, position),
                      VSub(self.velocity, velocity))

(***************************************************************************)
(* tracked_target.rs: a target tracked with covariances and priorities     *)
(***************************************************************************)
TrackedTarget_new(r, v, a, r_cov, v_cov, a_cov) ==
    [r |-> r, v |-> v, a |-> a, r_cov |-> r_cov, v_cov |-> v_cov, a_cov |-> a_cov,
     time_to_intercept |-> None, intercept_point |-> None,
     firing_priority |-> Zero, radar_priority |-> Zero]

\* update_firing_solution from the refined time t on.
Tracked_refined(self, calls, t_guess, t) ==
    IF FLe(t, Zero)
    THEN Done([self EXCEPT !.time_to_intercept = None, !.intercept_point = None],
              Append(calls, <<"const_accel", t_guess, t>>))
    ELSE Done([self EXCEPT !.time_to_intercept = Some(t),
                           !.intercept_point =
                               Some(Extrapolate(self.r, self.v, self.a, t))],
              Append(calls, <<"const_accel", t_guess, t>>))

\* update_firing_solution from the call of the refiner on.
Tracked_refine(self, r_rel, v_rel, calls, t_guess) ==
    Tracked_refined(self, calls, t_guess,
                    firing_solution_const_accel(r_rel, v_rel, self.a,
                                                F(BULLET_SPEED), t_guess,
                                                FDec(1, -4)))

\* The None arm of the match on time_to_intercept, maybe_guess computed.
Tracked_seed(self, r_rel, v_rel, maybe_guess) ==
    IF IsSome(maybe_guess)
    THEN Tracked_refine(self, r_rel, v_rel, <<<<"const_vel", maybe_guess>>>>,
                       Unwrap(maybe_guess)[1])
    ELSE Done([self EXCEPT !.time_to_intercept = None, !.intercept_point = None],
              <<<<"const_vel", maybe_guess>>>>)

Tracked_update_rel(self, r_rel, v_rel) ==
    IF IsSome(self.time_to_intercept)
    THEN Tracked_refine(self, r_rel, v_rel, <<>>, Unwrap(self.time_to_intercept))
    ELSE Tracked_seed(self, r_rel, v_rel,
                      firing_solution_const_vel(r_rel, v_rel, F(BULLET_SPEED)))

\* TrackedTarget::update_firing_solution
TrackedTarget_update_firing_solution(self, position, velocity) ==
    Tracked_update_rel(self, VSub(self.r, position), VSub(self.v, velocity))

\* update_priorities from min_possible on.
Tracked_radar(self, firing_priority, min_possible) ==
    [self EXCEPT !.firing_priority = firing_priority,
                 !.radar_priority = FDiv(firing_priority,
                                         FAdd(min_possible, F(1)))]

\* min_possible with dist + 2 sigma for dist - 2 sigma.
Tracked_min_possible_Plus(dist, var_radial) ==
    FMax(FAdd(dist, FMul(F(2), FSqrt(var_radial))), Zero)

\* let min_possible = (dist - 2.0 * var_radial.sqrt()).max(0.0)
Tracked_min_possible(dist, var_radial) ==
    FMax(FSub(dist, FMul(F(2), FSqrt(var_radial))), Zero)

\* let var_radial = ...; a, b, d are r_cov.xx, r_cov.xy, r_cov.yy.
Tracked_var_radial(a, b, d, r_unit) ==
    FAdd(FMul(r_unit[1], FAdd(FMul(a, r_unit[1]), FMul(b, r_unit[2]))),
         FMul(r_unit[2], FAdd(FMul(b, r_unit[1]), FMul(d, r_unit[2]))))

\* let r_unit = if dist > 0.0 { r_rel / dist } else { vec2(1.0, 0.0) }
Tracked_r_unit(r_rel, dist) ==
    IF FGt(dist, Zero)
    THEN <<FDiv(r_rel[1], dist), FDiv(r_rel[2], dist)>>
    ELSE V(1, 0)

\* update_priorities from var_radial on.
Tracked_radial(self, firing_priority, dist, var_radial) ==
    Tracked_radar(self, firing_priority, Tracked_min_possible(dist, var_radial))

\* update_priorities from r_unit on.
Tracked_unit(self, firing_priority, dist, a, b, d, r_unit) ==
    Tracked_radial(self, firing_priority, dist,
                   Tracked_var_radial(a, b, d, r_unit))

\* update_priorities from dist on.
Tracked_dist(self, firing_priority, r_rel, dist) ==
    Tracked_unit(self, firing_priority, dist,
                 self.r_cov.xx, self.r_cov.xy, self.r_cov.yy,
                 Tracked_r_unit(r_rel, dist))

\* update_priorities from r_rel on.
Tracked_prio(self, firing_priority, r_rel) ==
    Tracked_dist(self, firing_priority, r_rel, FSqrt(VDot(r_rel, r_rel)))

\* TrackedTarget::update_priorities
TrackedTarget_update_priorities(self, position) ==
    Tracked_prio(self,
                 IF IsSome(self.time_to_intercept)
                 THEN FDiv(F(1), FMax(Unwrap(self.time_to_intercept), FDec(1, -6)))
                 ELSE Zero,
                 VSub(self.r, position))

\* The value of the local min_possible in update_priorities, from dist on.
Tracked_min_possible_at(self, r_rel, dist) ==
    Tracked_min_possible(dist,
        Tracked_var_radial(self.r_cov.xx, self.r_cov.xy, self.r_cov.yy,
                           Tracked_r_unit(r_rel, dist)))

\* The value of the local min_possible in update_priorities.
TrackedTarget_min_possible(self, position) ==
    Tracked_min_possible_at(self, VSub(self.r, position),
                            FSqrt(VDot(VSub(self.r, position),
                                       VSub(self.r, position))))

\* tick after update_firing_solution: update_priorities.
Tracked_tick_solved(done, position) ==
    Done(TrackedTarget_update_priorities(done.self, position), done.calls)

\* tick after the state estimate updates.
Tracked_tick_moved(self, position, velocity) ==
    Tracked_tick_solved(TrackedTarget_update_firing_solution(self, position, velocity),
                        position)

\* TrackedTarget::tick
TrackedTarget_tick(self, position, velocity) ==
    Tracked_tick_moved(
        [self EXCEPT !.r = VAdd(self.r, VScale(self.v, TICK_LENGTH)),
                     !.v = VAdd(self.v, VScale(self.a, TICK_LENGTH)),
                     !.r_cov = Mat2_add(self.r_cov, Mat2_mul_f64(self.v_cov, TICK_LENGTH)),
                     !.v_cov = Mat2_add(self.v_cov, Mat2_mul_f64(self.a_cov, TICK_LENGTH))],
        position, velocity)

(***************************************************************************)
(* The feedback controller on its own                                      *)
(***************************************************************************)
InitPid ==
    /\ \E g \in Gains : pid = Pid_new(g[1], g[2], g[3])
    /\ call = NoPidCall
    /\ hist = <<>>
    /\ epoch = NoEpoch
    /\ ship = Ship_new /\ tick = NoTick /\ ticks = 0
    /\ solver = NoSolver
    /\ kind = "none" /\ obj = None /\ tcall = NoTargetCall /\ steps = 0
    /\ kf = NoKalman /\ truth = NoTruth /\ fused = 0 /\ coasts = 0

\* The call's effect r recorded.
UpdateDone(error, dt, r) ==
    /\ r.ret = Panicked \/ Len(hist) < MaxCalls
    /\ pid' = r.pid
    /\ call' = [op |-> "update", error |-> error, dt |-> dt, ret |-> r.ret]
    /\ hist' = IF r.ret = Panicked THEN hist
               ELSE Append(hist, [error |-> error, dt |-> dt, ret |-> r.ret[2]])
    /\ UNCHANGED <<epoch, shipVars, solverVars, targetVars, kalmanVars>>

Update(error, dt) == UpdateDone(error, dt, Pid_update(pid, error, dt))

Reset ==
    /\ pid' = Pid_reset(pid)
    /\ call' = [op |-> "reset", error |-> Zero, dt |-> Zero, ret |-> NoCall]
    /\ hist' = <<>>
    /\ epoch' = [kind |-> "reset", used |-> hist # <<>>]
    /\ UNCHANGED <<shipVars, solverVars, targetVars, kalmanVars>>

NextPid ==
    \/ \E error \in Errors, dt \in Dts : Update(error, dt)
    \/ Reset

(***************************************************************************)
(* The solvers on their own                                                *)
(***************************************************************************)
SolverPositions == {V(3, 4), V(-3, 0), V(-3, -4), V(0, 0), V(1, 1)}
SolverVelocities ==
    {V(0, 0), V(10, 0), V(3, 4), V(1000, 0), V(600, 800), V(2000, 0)}
SolverSpeeds == {F(BULLET_SPEED), F(5)}
SolverAccelerations == {V(0, 0), V(100, 0)}
SolverGuesses == {Zero, F(1), F(-1), FDec(1, -3), PosInf, NaN}

InitSolver ==
    /\ \E r \in SolverPositions, v \in SolverVelocities, s \in SolverSpeeds :
          solver = [phase |-> "input", r |-> r, v |-> v, s |-> s,
                    a |-> V(0, 0), cv |-> None, guess |-> None,
                    t |-> None, run |-> None]
    /\ pid = NoPid /\ call = NoPidCall /\ hist = <<>> /\ epoch = NoEpoch
    /\ ship = Ship_new /\ tick = NoTick /\ ticks = 0
    /\ kind = "none" /\ obj = None /\ tcall = NoTargetCall /\ steps = 0
    /\ kf = NoKalman /\ truth = NoTruth /\ fused = 0 /\ coasts = 0

\* firing_solution_const_vel(r, v, s)
SolveConstVel ==
    /\ solver.phase = "input"
    /\ solver' = [solver EXCEPT !.phase = "const_vel",
                    !.cv = firing_solution_const_vel(solver.r, solver.v, solver.s)]
    /\ UNCHANGED <<pidVars, shipVars, targetVars, kalmanVars>>

\* An initial guess handed to the refiner: n is the Newton loop's run, of
\* which firing_solution_const_accel returns n.t.
RefineDone(phase, a, t_guess, n) ==
    /\ solver' = [solver EXCEPT !.phase = phase, !.a = a,
                    !.guess = Some(t_guess), !.t = Some(n.t), !.run = Some(n)]
    /\ UNCHANGED <<pidVars, shipVars, targetVars, kalmanVars>>

\* firing_solution_const_accel(r, v, a, s, t_cv, 1e-4), seeded with the time
\* the closed form returned.
Refine(a) ==
    /\ solver.phase = "const_vel"
    /\ IsSome(solver.cv)
    /\ RefineDone("const_accel", a, Unwrap(solver.cv)[1],
                  Newton(Quartic(solver.r, solver.v, a, solver.s), FDec(1, -4),
                         Unwrap(solver.cv)[1]))

\* firing_solution_const_accel(r, v, a, s, t_guess, 1e-4), seeded with a time
\* cached by an earlier tick: any f64.
RefineFrom(a, t_guess) ==
    /\ solver.phase = "const_vel"
    /\ RefineDone("guess", a, t_guess,
                  Newton(Quartic(solver.r, solver.v, a, solver.s), FDec(1, -4),
                         t_guess))

NextSolver ==
    \/ SolveConstVel
    \/ \E a \in SolverAccelerations : Refine(a)
    \/ \E a \in SolverAccelerations, g \in SolverGuesses : RefineFrom(a, g)

(***************************************************************************)
(* A Target or a TrackedTarget and the calls made on it                    *)
(***************************************************************************)
\* Bound on the calls made on the object.
MaxSteps == 3

\* position, velocity, acceleration of a target.
TargetStates ==
    {V(3, 4), V(-3, 0), V(-30, 0)} \X {V(0, 0), V(10, 0), V(1000, 0)}
        \X {V(0, 0), V(100, 0)}

\* r_cov, v_cov, a_cov of a tracked target.
Covariances ==
    { <<Mat2_zero, Mat2_zero, Mat2_zero>>,
      <<Mat2_identity, Mat2_identity, Mat2_zero>> }

InitTarget ==
    /\ \/ \E x \in TargetStates :
             /\ kind = "Target"
             /\ obj = Target_new(x[1], x[2], x[3])
       \/ \E x \in TargetStates, c \in Covariances :
             /\ kind = "TrackedTarget"
             /\ obj = TrackedTarget_new(x[1], x[2], x[3], c[1], c[2], c[3])
    /\ tcall = [op |-> "new", calls |-> <<>>]
    /\ steps = 0
    /\ pid = NoPid /\ call = NoPidCall /\ hist = <<>> /\ epoch = NoEpoch
    /\ ship = Ship_new /\ tick = NoTick /\ ticks = 0
    /\ solver = NoSolver
    /\ kf = NoKalman /\ truth = NoTruth /\ fused = 0 /\ coasts = 0

\* The call op made: done is the object after it and the solvers it used.
Called(op, done) ==
    /\ steps < MaxSteps
    /\ obj' = done.self
    /\ tcall' = [op |-> op, calls |-> done.calls]
    /\ steps' = steps + 1
    /\ UNCHANGED <<kind, pidVars, shipVars, solverVars, kalmanVars>>

UpdateState(r, v, a) ==
    /\ kind = "Target"
    /\ Called("update_state", Done(Target_update_state(obj, r, v, a), <<>>))

UpdateFiringSolution(position, velocity) ==
    /\ kind = "Target"
    /\ Called("update_firing_solution",
              Target_update_firing_solution(obj, position, velocity))

TrackedTick(position, velocity) ==
    /\ kind = "TrackedTarget"
    /\ Called("tick", TrackedTarget_tick(obj, position, velocity))

TrackedUpdateFiringSolution(position, velocity) ==
    /\ kind = "TrackedTarget"
    /\ Called("update_firing_solution",
              TrackedTarget_update_firing_solution(obj, position, velocity))

TrackedUpdatePriorities(position) ==
    /\ kind = "TrackedTarget"
    /\ Called("update_priorities",
              Done(TrackedTarget_update_priorities(obj, position), <<>>))

NextTarget ==
    \/ \E x \in TargetStates : UpdateState(x[1], x[2], x[3])
    \/ \E ps \in Positions, vs \in Velocities : UpdateFiringSolution(ps, vs)
    \/ \E ps \in Positions, vs \in Velocities : TrackedTick(ps, vs)
    \/ \E ps \in Positions, vs \in Velocities : TrackedUpdateFiringSolution(ps, vs)
    \/ \E ps \in Positions : TrackedUpdatePriorities(ps)

(***************************************************************************)
(* Two TrackedTargets that differ in their position covariance only        *)
(***************************************************************************)
\* Bound on the calls made on the pair.
MaxPairSteps == 2

\* r, v, a of both targets.
PairStates ==
    {V(3, 4), V(-30, 0)} \X {V(0, 0), V(10, 0), V(2000, 0)} \X {V(0, 0)}

\* The position covariances a pair is drawn from: symmetric, positive
\* semidefinite.
PositionCovariances ==
    << Mat2_zero, Mat2_identity, Mat2_new(F(4), Zero, Zero, F(1)),
       Mat2_new(F(2), F(1), F(1), F(2)), Mat2_new(F(9), Zero, Zero, F(9)),
       Mat2_new(F(100), Zero, Zero, F(100)) >>

InitPair ==
    /\ \E x \in PairStates, i \in 1..Len(PositionCovariances),
          j \in 1..Len(PositionCovariances) :
          /\ i < j
          /\ kind = "TrackedPair"
          /\ obj = << TrackedTarget_new(x[1], x[2], x[3], PositionCovariances[i],
                                        Mat2_identity, Mat2_zero),
                      TrackedTarget_new(x[1], x[2], x[3], PositionCovariances[j],
                                        Mat2_identity, Mat2_zero) >>
    /\ tcall = [op |-> "new", calls |-> <<>>, position |-> V(0, 0)]
    /\ steps = 0
    /\ pid = NoPid /\ call = NoPidCall /\ hist = <<>> /\ epoch = NoEpoch
    /\ ship = Ship_new /\ tick = NoTick /\ ticks = 0
    /\ solver = NoSolver
    /\ kf = NoKalman /\ truth = NoTruth /\ fused = 0 /\ coasts = 0

\* The same call op made on both targets, the ship at position.
PairCalled(op, position, done1, done2) ==
    /\ steps < MaxPairSteps
    /\ obj' = <<done1.self, done2.self>>
    /\ tcall' = [op |-> op, calls |-> done1.calls, position |-> position]
    /\ steps' = steps + 1
    /\ UNCHANGED <<kind, pidVars, shipVars, solverVars, kalmanVars>>

PairTick(position, velocity) ==
    /\ kind = "TrackedPair"
    /\ PairCalled("tick", position,
                  TrackedTarget_tick(obj[1], position, velocity),
                  TrackedTarget_tick(obj[2], position, velocity))

PairUpdateFiringSolution(position, velocity) ==
    /\ kind = "TrackedPair"
    /\ PairCalled("update_firing_solution", position,
                  TrackedTarget_update_firing_solution(obj[1], position, velocity),
                  TrackedTarget_update_firing_solution(obj[2], position, velocity))

PairUpdatePriorities(position) ==
    /\ kind = "TrackedPair"
    /\ PairCalled("update_priorities", position,
                  Done(TrackedTarget_update_priorities(obj[1], position), <<>>),
                  Done(TrackedTarget_update_priorities(obj[2], position), <<>>))

NextPair ==
    \/ \E ps \in Positions, vs \in Velocities : PairTick(ps, vs)
    \/ \E ps \in Positions, vs \in Velocities : PairUpdateFiringSolution(ps, vs)
    \/ \E ps \in Positions : PairUpdatePriorities(ps)

(***************************************************************************)
(* kalman.rs: the Kalman filter for position and velocity                  *)
(***************************************************************************)
\* maths_rs Mat4<f64>: the 16 entries m[0..15] row by row.  Vec4<f64>: the
\* 4 coordinates x, y, z, w.
Mat4 == [1..16 -> Fl]
Vec4 == [1..4 -> Fl]

\* The entry in row i and column j.
At(m, i, j) == m[4 * (i - 1) + j]

\* addition for Mat4
mat4_add[left \in Mat4, right \in Mat4] ==
    [k \in 1..16 |-> FAdd(left[k], right[k])]

\* subtraction for Mat4
mat4_sub[left \in Mat4, right \in Mat4] ==
    [k \in 1..16 |-> FSub(left[k], right[k])]

\* Create a diagonal Mat4
mat4_from_diag(a1, a2, a3, a4) ==
    << a1, Zero, Zero, Zero, Zero, a2, Zero, Zero,
       Zero, Zero, a3, Zero, Zero, Zero, Zero, a4 >>

Mat4_identity == mat4_from_diag(F(1), F(1), F(1), F(1))

Mat4_transpose[m \in Mat4] ==
    [k \in 1..16 |-> At(m, ((k - 1) % 4) + 1, ((k - 1) \div 4) + 1)]

\* The dot product of row i of a with column j of b.
Mat4_row_col[a \in Mat4, b \in Mat4, i \in 1..4, j \in 1..4] ==
    FAdd(FAdd(FAdd(FMul(At(a, i, 1), At(b, 1, j)), FMul(At(a, i, 2), At(b, 2, j))),
              FMul(At(a, i, 3), At(b, 3, j))),
         FMul(At(a, i, 4), At(b, 4, j)))

\* Mat4 * Mat4
Mat4_mul[a \in Mat4, b \in Mat4] ==
    [k \in 1..16 |-> Mat4_row_col[a, b, ((k - 1) \div 4) + 1, ((k - 1) % 4) + 1]]

\* Mat4 * Vec4
Mat4_mul_vec[a \in Mat4, v \in Vec4] ==
    [i \in 1..4 |->
        FAdd(FAdd(FAdd(FMul(At(a, i, 1), v[1]), FMul(At(a, i, 2), v[2])),
                  FMul(At(a, i, 3), v[3])),
             FMul(At(a, i, 4), v[4]))]

Vec4_add[u \in Vec4, v \in Vec4] == [i \in 1..4 |-> FAdd(u[i], v[i])]
Vec4_sub[u \in Vec4, v \in Vec4] == [i \in 1..4 |-> FSub(u[i], v[i])]

\* The three indices other than i, in order.
Others(i) ==
    IF i = 1 THEN <<2, 3, 4>> ELSE IF i = 2 THEN <<1, 3, 4>>
    ELSE IF i = 3 THEN <<1, 2, 4>> ELSE <<1, 2, 3>>

\* The determinant of the 3x3 matrix with rows <<a, b, c>>, <<d, e, f>>,
\* <<g, h, i>>.
Det3[a \in Fl, b \in Fl, c \in Fl, d \in Fl, e \in Fl, f \in Fl, g \in Fl, h \in Fl, i \in Fl] ==
    FAdd(FSub(FMul(a, FSub(FMul(e, i), FMul(f, h))),
              FMul(b, FSub(FMul(d, i), FMul(f, g)))),
         FMul(c, FSub(FMul(d, h), FMul(e, g))))

\* The minor of m on the rows rs and the columns cs.
Mat4_minor[m \in Mat4, rs \in Seq(1..4), cs \in Seq(1..4)] ==
    Det3[At(m, rs[1], cs[1]), At(m, rs[1], cs[2]), At(m, rs[1], cs[3]),
         At(m, rs[2], cs[1]), At(m, rs[2], cs[2]), At(m, rs[2], cs[3]),
         At(m, rs[3], cs[1]), At(m, rs[3], cs[2]), At(m, rs[3], cs[3])]

\* The cofactor of the entry in row i and column j.
Mat4_cofactor[m \in Mat4, i \in 1..4, j \in 1..4] ==
    IF (i + j) % 2 = 0
    THEN Mat4_minor[m, Others(i), Others(j)]
    ELSE FNeg(Mat4_minor[m, Others(i), Others(j)])

\* The determinant, expanded along the first row.
Mat4_det[m \in Mat4] ==
    FAdd(FAdd(FAdd(FMul(At(m, 1, 1), Mat4_cofactor[m, 1, 1]),
                   FMul(At(m, 1, 2), Mat4_cofactor[m, 1, 2])),
              FMul(At(m, 1, 3), Mat4_cofactor[m, 1, 3])),
         FMul(At(m, 1, 4), Mat4_cofactor[m, 1, 4]))

\* The adjugate divided by the determinant det.
Mat4_adjugate_over[m \in Mat4, det \in Fl] ==
    [k \in 1..16 |->
        FDiv(Mat4_cofactor[m, ((k - 1) % 4) + 1, ((k - 1) \div 4) + 1], det)]

\* MatInverse for Mat4
Mat4_inverse[m \in Mat4] == Mat4_adjugate_over[m, Mat4_det[m]]

\* KalmanPosVel2d::new
KalmanPosVel2d_new(position_meas_std, velocity_meas_std, position_process_std, velocity_process_std) ==
    [x |-> <<Zero, Zero, Zero, Zero>>,
     p |-> mat4_from_diag(F(1000), F(1000), F(1000), F(1000)),
     f |-> << F(1), Zero, TICK_LENGTH, Zero,
              Zero, F(1), Zero, TICK_LENGTH,
              Zero, Zero, F(1), Zero,
              Zero, Zero, Zero, F(1) >>,
     q |-> mat4_from_diag(FMul(position_process_std, position_process_std),
                          FMul(position_process_std, position_process_std),
                          FMul(velocity_process_std, velocity_process_std),
                          FMul(velocity_process_std, velocity_process_std)),
     h |-> Mat4_identity,
     r |-> mat4_from_diag(FMul(position_meas_std, position_meas_std),
                          FMul(position_meas_std, position_meas_std),
                          FMul(velocity_meas_std, velocity_meas_std),
                          FMul(velocity_meas_std, velocity_meas_std))]

\* A predict that leaves the state estimate where it is.
KalmanPosVel2d_predict_NoTransition(self) ==
    [self EXCEPT
        !.p = mat4_add[Mat4_mul[Mat4_mul[self.f, self.p], Mat4_transpose[self.f]],
                       self.q]]

\* KalmanPosVel2d::predict
KalmanPosVel2d_predict(self) ==
    [self EXCEPT
        !.x = Mat4_mul_vec[self.f, self.x],
        !.p = mat4_add[Mat4_mul[Mat4_mul[self.f, self.p], Mat4_transpose[self.f]],
                       self.q]]

\* predict_and_update from the covariance update on.
Kalman_joseph(self, k, i_minus_kh) ==
    [self EXCEPT
        !.p = mat4_add[Mat4_mul[Mat4_mul[i_minus_kh, self.p],
                                Mat4_transpose[i_minus_kh]],
                       Mat4_mul[Mat4_mul[k, self.r], Mat4_transpose[k]]]]

\* predict_and_update from the state update on: k is the Kalman gain.
Kalman_gain(self, y, k) ==
    Kalman_joseph([self EXCEPT !.x = Vec4_add[self.x, Mat4_mul_vec[k, y]]], k,
                  mat4_sub[Mat4_identity, Mat4_mul[k, self.h]])

\* predict_and_update from the gain on: y is the residual and s its
\* covariance.
Kalman_residual(self, y, s) ==
    Kalman_gain(self, y,
                Mat4_mul[Mat4_mul[self.p, Mat4_transpose[self.h]], Mat4_inverse[s]])

\* predict_and_update after the prediction step; z is the measurement.
Kalman_update(self, z) ==
    Kalman_residual(self, Vec4_sub[z, Mat4_mul_vec[self.h, self.x]],
                    mat4_add[Mat4_mul[Mat4_mul[self.h, self.p],
                                      Mat4_transpose[self.h]],
                             self.r])

\* KalmanPosVel2d::predict_and_update
KalmanPosVel2d_predict_and_update(self, position_meas, velocity_meas) ==
    Kalman_update(KalmanPosVel2d_predict(self),
                  <<position_meas[1], position_meas[2],
                    velocity_meas[1], velocity_meas[2]>>)

\* KalmanPosVel2d::position and KalmanPosVel2d::velocity
KalmanPosVel2d_position(self) == <<self.x[1], self.x[2]>>
KalmanPosVel2d_velocity(self) == <<self.x[3], self.x[4]>>

\* Bounds on the predict_and_update calls and on the predict calls of one run.
MaxFusions == 10
MaxCoasts == 1

\* The true positions and velocities at the start.
TruePositions == {V(2, 3), V(0, 0), V(-4, 1), V(20, 30)}
TrueVelocities == {V(0, 0), V(10, 20), V(-5, 2)}

InitKalman ==
    /\ kf = Some(KalmanPosVel2d_new(F(1), F(1), FDec(1, -1), FDec(1, -1)))
    /\ \E r \in TruePositions, v \in TrueVelocities :
          truth = [init |-> r, position |-> r, velocity |-> v]
    /\ fused = 0
    /\ coasts = 0
    /\ pid = NoPid /\ call = NoPidCall /\ hist = <<>> /\ epoch = NoEpoch
    /\ ship = Ship_new /\ tick = NoTick /\ ticks = 0
    /\ solver = NoSolver
    /\ kind = "none" /\ obj = None /\ tcall = NoTargetCall /\ steps = 0

\* The truth one tick later: x_true += vx_true * TICK_LENGTH, likewise y.
TruthAfterTick(t) ==
    [t EXCEPT !.position = VAdd(t.position, VScale(t.velocity, TICK_LENGTH))]

\* The truth moved by a tick to now, and predict_and_update called with the
\* exact measurement of it.
FuseExact(now) ==
    /\ truth' = now
    /\ kf' = Some(KalmanPosVel2d_predict_and_update(
                      Unwrap(kf), now.position, now.velocity))
    /\ fused' = fused + 1
    /\ UNCHANGED <<coasts, pidVars, shipVars, solverVars, targetVars>>

PredictAndUpdate ==
    /\ IsSome(kf)
    /\ fused < MaxFusions
    /\ FuseExact(TruthAfterTick(truth))

\* A tick without a measurement: the truth moves and predict is called.
Predict ==
    /\ IsSome(kf)
    /\ coasts < MaxCoasts
    /\ truth' = TruthAfterTick(truth)
    /\ kf' = Some(KalmanPosVel2d_predict(Unwrap(kf)))
    /\ coasts' = coasts + 1
    /\ UNCHANGED <<fused, pidVars, shipVars, solverVars, targetVars>>

NextKalman ==
    \/ PredictAndUpdate
    \/ Predict

\* The feedback controller on its own.
SpecPid == InitPid /\ [][NextPid]_vars

\* The ship's control loop.
SpecShip == InitShip /\ [][NextShip]_vars

\* The intercept solvers on their own.
SpecSolver == InitSolver /\ [][NextSolver]_vars

\* A target object and the calls made on it.
SpecTarget == InitTarget /\ [][NextTarget]_vars

\* Two tracked targets and the calls made on both.
SpecPair == InitPair /\ [][NextPair]_vars

\* A Kalman filter fed the exact measurements of a constant-velocity truth.
SpecKalman == InitKalman /\ [][NextKalman]_vars

(***************************************************************************)
(* Claims about the feedback controller (checked under SpecPid)            *)
(***************************************************************************)
AllErrors(h, e) == \A i \in 1..Len(h) : h[i].error = e

\* C4: update(error, dt) with dt <= 0 panics for every error and every
\* controller state, and the panic comes before the integral accumulator or
\* the previous-error memory is modified.
C4_NonPositiveDtPanics ==
    [][(call'.op = "update" /\ FLe(call'.dt, Zero))
        => (call'.ret = Panicked /\ pid' = pid /\ hist' = hist)]_vars

C4_Witness ==
    /\ call.op = "update" /\ FLe(call.dt, Zero) /\ call.ret = Panicked
    /\ call.error # Zero
    /\ pid.integral # Zero /\ IsSome(pid.prev_error)

\* C5: if every update since construction or the last reset had error = 0
\* (any dt > 0, any gains), every one of those calls returned exactly 0.
C5_ZeroErrorZeroOutput ==
    AllErrors(hist, Zero) => \A i \in 1..Len(hist) : hist[i].ret = Zero

C5_Witness ==
    /\ Len(hist) = 2 /\ AllErrors(hist, Zero) /\ hist[1].dt # hist[2].dt
    /\ pid.ki # Zero /\ pid.kd # Zero
    /\ epoch.kind = "reset" /\ epoch.used

\* C6: with ki = 0 and kd = 0, update(error, dt) returns exactly kp * error
\* on every call, for any dt > 0 and whatever the earlier errors.
C6_PureProportional ==
    (pid.ki = Zero /\ pid.kd = Zero)
        => \A i \in 1..Len(hist) : hist[i].ret = FMul(pid.kp, hist[i].error)

C6_Witness ==
    /\ pid.ki = Zero /\ pid.kd = Zero
    /\ Len(hist) = 2 /\ hist[1].error # Zero /\ hist[2].error # Zero
    /\ hist[1].error # hist[2].error /\ hist[1].dt # hist[2].dt

\* C7 as stated: after reset(), whatever the earlier updates and the gains,
\* the next update(error, dt) returns kp * error.
C7_ResetGivesProportional ==
    (epoch.kind = "reset" /\ Len(hist) >= 1)
        => hist[1].ret = FMul(pid.kp, hist[1].error)

\* C7 amended: after reset() the next update(error, dt) returns
\* kp * error + ki * (error * dt), the value of a fresh controller's first
\* call (no derivative term, nothing carried over in the accumulator); that
\* is kp * error when ki = 0.
C7_ResetGivesFirstCallValue ==
    (epoch.kind = "reset" /\ Len(hist) >= 1)
        => /\ hist[1].ret = FAdd(FMul(pid.kp, hist[1].error),
                                 FMul(pid.ki, FMul(hist[1].error, hist[1].dt)))
           /\ pid.ki = Zero => hist[1].ret = FMul(pid.kp, hist[1].error)

C7_Witness ==
    /\ epoch.kind = "reset" /\ epoch.used /\ Len(hist) >= 1
    /\ pid.ki # Zero /\ pid.kd # Zero /\ hist[1].error # Zero

\* C8: the accumulator grows by error * dt on the first update since
\* construction or reset and by 0.5 * (error + previous error) * dt on every
\* later one, a panicking update leaves it alone (only reset sets it back),
\* and under a constant positive error it increases strictly on every call.
C8_IntegralAccumulates ==
    [][call'.op = "update" =>
        IF call'.ret = Panicked THEN pid'.integral = pid.integral
        ELSE LET e == call'.error
                 dt == call'.dt
                 inc == IF hist = <<>> THEN FMul(e, dt)
                        ELSE FMul(FMul(FDec(5, -1), FAdd(e, hist[Len(hist)].error)), dt)
             IN  /\ pid'.integral = FAdd(pid.integral, inc)
                 /\ (FGt(e, Zero) /\ AllErrors(hist, e))
                        => FGt(pid'.integral, pid.integral)]_vars

C8_Witness ==
    /\ Len(hist) = 2 /\ FGt(hist[1].error, Zero) /\ AllErrors(hist, hist[1].error)
    /\ pid.ki # Zero /\ FGt(pid.integral, Zero)

(***************************************************************************)
(* Claims about Ship::tick (checked under SpecShip)                        *)
(***************************************************************************)
\* C2: in every Ship::tick, fire is issued iff a firing solution with time t
\* exists for the tick and |bearing_error| * (BULLET_SPEED * t) < 10; never
\* in a tick without a solution, and at most once per tick.
C2_FireIffOnTarget ==
    /\ tick.fire \in {0, 1}
    /\ tick.sol = None => tick.fire = 0
    /\ tick.fire = 1 <=>
          /\ firing_solution(VSub(tick.env.target, tick.env.position),
                             VSub(tick.env.target_velocity, tick.env.velocity),
                             F(BULLET_SPEED)) # None
          /\ tick.sol # None
          /\ FLt(FMul(FAbs(Unwrap(tick.bearing_error)),
                      FMul(F(BULLET_SPEED), Unwrap(tick.sol)[1])), F(10))

C2_Witness ==
    /\ ticks = 2 /\ tick.fire = 1 /\ tick.sol # None
    /\ Unwrap(tick.bearing_error) # Zero

\* C3: a Ship::tick without a firing solution issues no torque, fire or
\* acceleration command and leaves the controller's integral accumulator
\* and previous-error memory exactly as they were.
C3_NoSolutionNoEffect ==
    [][(ticks' = ticks + 1 /\ tick'.sol = None)
        => /\ tick'.torque = None /\ tick'.fire = 0 /\ tick'.accel = None
           /\ ship'.pid = ship.pid]_vars

C3_Witness ==
    /\ ticks = 2 /\ tick.sol = None /\ tick.torque = None
    /\ ship.pid.integral # Zero /\ IsSome(ship.pid.prev_error)

(***************************************************************************)
(* Claims about the cached firing solution (checked under SpecTarget)      *)
(***************************************************************************)
\* C1: after construction and after any sequence of update_state,
\* update_firing_solution and tick calls on a Target or a TrackedTarget,
\* time_to_intercept and intercept_point are both absent or both present,
\* and a time_to_intercept that is present is strictly positive.
C1_SolutionCoupledAndPositive ==
    kind # "none" =>
        /\ IsSome(obj.time_to_intercept) <=> IsSome(obj.intercept_point)
        /\ IsSome(obj.time_to_intercept)
              => FGt(Unwrap(obj.time_to_intercept), Zero)

(***************************************************************************)
(* Claims about the solvers (checked under SpecSolver)                     *)
(***************************************************************************)
\* The integer a float with an integral value stands for.
ToInt(x) == x[2] * (10 ^ x[3])
IDot(a, b) == ToInt(a[1]) * ToInt(b[1]) + ToInt(a[2]) * ToInt(b[2])

\* Whether |r + v t| = s t has a strictly positive solution t, decided in
\* integer arithmetic on A t^2 + B t + C = 0 with A = v.v - s^2, B = 2 v.r,
\* C = r.r (r, v, s integral, s > 0).
PositiveRoot(A, B, C) ==
    IF A = 0 THEN (B < 0 /\ C > 0) \/ (B = 0 /\ C = 0)
    ELSE IF A < 0 THEN C > 0
    ELSE B * B - 4 * A * C >= 0 /\ B < 0 /\ C > 0

ExistsPositiveRoot(r, v, s) ==
    PositiveRoot(IDot(v, v) - ToInt(s) * ToInt(s), 2 * IDot(v, r), IDot(r, r))

\* |r + v t|^2 - (s t)^2
Residual(r, v, s, t) ==
    FSub(VDot(VAdd(r, VScale(v, t)), VAdd(r, VScale(v, t))),
         FMul(FMul(s, t), FMul(s, t)))

\* t is, within one part in a thousand, the smallest strictly positive
\* solution: the residual is positive from t = 0 (where it is r.r) up to the
\* first solution and changes sign there.
SmallestPositiveRoot(r, v, s, t) ==
    /\ IsFinite(t) /\ FGt(t, Zero)
    /\ FGe(Residual(r, v, s, FMul(t, FDec(999, -3))), Zero)
    /\ FLe(Residual(r, v, s, FMul(t, FDec(1001, -3))), Zero)

\* aim is r + v t to within one part in a million of the distances involved.
IsAimPoint(r, v, t, aim) ==
    /\ IsFinite(aim[1]) /\ IsFinite(aim[2])
    /\ FLe(FAbs(FSub(aim[1], FAdd(r[1], FMul(v[1], t)))),
           FMul(FDec(1, -6), FAdd(FAbs(r[1]), FAbs(FMul(v[1], t)))))
    /\ FLe(FAbs(FSub(aim[2], FAdd(r[2], FMul(v[2], t)))),
           FMul(FDec(1, -6), FAdd(FAbs(r[2]), FAbs(FMul(v[2], t)))))

\* C9: for every r, v and s the constant-velocity solver returns the smallest
\* strictly positive t with |r + v t| = s t together with the aim point
\* r + v t, and None exactly when there is no strictly positive such t; when
\* s > |v| (and the target is not at the shooter) it returns such a t.
C9_SmallestPositiveIntercept ==
    solver.phase \in {"const_vel", "const_accel"} =>
        /\ (solver.cv = None) <=> ~ExistsPositiveRoot(solver.r, solver.v, solver.s)
        /\ IsSome(solver.cv) =>
              /\ SmallestPositiveRoot(solver.r, solver.v, solver.s,
                                      Unwrap(solver.cv)[1])
              /\ IsAimPoint(solver.r, solver.v, Unwrap(solver.cv)[1],
                            Unwrap(solver.cv)[2])
        /\ (ToInt(solver.s) * ToInt(solver.s) > IDot(solver.v, solver.v)
               /\ solver.r # V(0, 0))
              => IsSome(solver.cv)

\* C10: where the constant-velocity solver returns a time t_cv, the refiner
\* called with zero acceleration, the same r, v, s, the seed t_cv and the
\* tolerance 1e-4 returns a time within the tolerance of t_cv.
C10_ZeroAccelerationAgrees ==
    (solver.phase = "const_accel" /\ solver.a = V(0, 0)) =>
        FLt(FAbs(FSub(Unwrap(solver.t), Unwrap(solver.cv)[1])), FDec(1, -4))

(***************************************************************************)
(* Claims about the Newton refiner (checked under SpecSolver)              *)
(***************************************************************************)
\* The Newton step from t on the quartic p.
NewtonStepFrom(p, t) == FSub(t, FDiv(NewtonF(p, t), NewtonDf(p, t)))

\* C11: firing_solution_const_accel returns, for every input and every
\* initial guess, after at least one and at most MAX_ITER = 100 passes of its
\* loop.  It leaves the loop before the 100th pass has ended only at a pass
\* where |f'(t)| < 1e-6 or where the Newton step moves t by less than the
\* tolerance; otherwise it returns the iterate it has after 100 passes,
\* converged or not.
C11_NewtonBounded ==
    IsSome(solver.run) =>
        LET n == Unwrap(solver.run)
            p == Quartic(solver.r, solver.v, solver.a, solver.s)
        IN /\ n.iters >= 1 /\ n.iters <= MAX_ITER
           /\ n.exit \in {"flat", "converged", "max_iter"}
           /\ n.iters < MAX_ITER => n.exit \in {"flat", "converged"}
           /\ n.exit = "max_iter" => n.iters = MAX_ITER
           /\ n.exit = "flat" => FLt(FAbs(NewtonDf(p, n.t)), FDec(1, -6))
           /\ n.exit = "converged" =>
                  /\ ~FLt(FAbs(NewtonDf(p, n.t)), FDec(1, -6))
                  /\ FLt(FAbs(FSub(NewtonStepFrom(p, n.t), n.t)), FDec(1, -4))

\* A run that used all 100 passes and ended without a converged step, one left
\* early at a flat slope and one left early at a converged step, from guesses
\* other than the closed form's time.
C11_Witness ==
    /\ solver.phase = "guess"
    /\ IsSome(solver.run)
    /\ Unwrap(solver.run).exit = "max_iter"
    /\ Unwrap(solver.run).iters = MAX_ITER
    /\ ~FLt(FAbs(FSub(NewtonStepFrom(Quartic(solver.r, solver.v, solver.a, solver.s),
                                     Unwrap(solver.run).t),
                      Unwrap(solver.run).t)), FDec(1, -4))

(***************************************************************************)
(* Claims about the priorities (checked under SpecPair)                    *)
(***************************************************************************)
\* The variance of the position along the line of sight from the ship at
\* position to the target, times the squared distance:
\* r_rel . (r_cov r_rel).
LosVariance(self, position) ==
    LET r_rel == VSub(self.r, position)
    IN VDot(r_rel,
            << FAdd(FMul(self.r_cov.xx, r_rel[1]), FMul(self.r_cov.xy, r_rel[2])),
               FAdd(FMul(self.r_cov.yx, r_rel[1]), FMul(self.r_cov.yy, r_rel[2])) >>)

\* update_priorities has just run on both targets, and target j has the
\* larger variance along the line of sight.
LargerVariance(i, j) ==
    /\ kind = "TrackedPair"
    /\ tcall.op \in {"tick", "update_priorities"}
    /\ FLt(LosVariance(obj[i], tcall.position), LosVariance(obj[j], tcall.position))

\* C12 as stated: of two TrackedTargets that differ in r_cov only, the one
\* with the larger variance along the line of sight gets from
\* update_priorities a strictly smaller min_possible and a strictly larger
\* radar_priority.
C12_LargerVarianceStrictlyCloser ==
    \A i, j \in {1, 2} :
        LargerVariance(i, j) =>
            /\ FLt(TrackedTarget_min_possible(obj[j], tcall.position),
                   TrackedTarget_min_possible(obj[i], tcall.position))
            /\ FGt(obj[j].radar_priority, obj[i].radar_priority)

\* C12 amended: the one with the larger variance along the line of sight gets
\* a min_possible that is no larger and a radar_priority that is no smaller;
\* min_possible is strictly smaller when the other target's min_possible is
\* above the 0 it is clamped at, and radar_priority is strictly larger when in
\* addition a time_to_intercept is cached (firing_priority is not 0).
C12_LargerVarianceNoFarther ==
    \A i, j \in {1, 2} :
        LargerVariance(i, j) =>
            /\ FLe(TrackedTarget_min_possible(obj[j], tcall.position),
                   TrackedTarget_min_possible(obj[i], tcall.position))
            /\ FGe(obj[j].radar_priority, obj[i].radar_priority)
            /\ FGt(TrackedTarget_min_possible(obj[i], tcall.position), Zero) =>
                  /\ FLt(TrackedTarget_min_possible(obj[j], tcall.position),
                         TrackedTarget_min_possible(obj[i], tcall.position))
                  /\ IsSome(obj[i].time_to_intercept) =>
                         FGt(obj[j].radar_priority, obj[i].radar_priority)
            /\ obj[i].time_to_intercept = None =>
                  /\ obj[i].radar_priority = Zero
                  /\ obj[j].radar_priority = Zero

\* A pair after update_priorities with different variances along the line of
\* sight, a cached time_to_intercept and an unclamped min_possible: the
\* strict case.
C12_Witness ==
    \E i, j \in {1, 2} :
        /\ LargerVariance(i, j)
        /\ IsSome(obj[i].time_to_intercept)
        /\ FGt(TrackedTarget_min_possible(obj[i], tcall.position), Zero)
        /\ FGt(obj[j].radar_priority, obj[i].radar_priority)

(***************************************************************************)
(* Claims about the acceleration command (checked under SpecShip)          *)
(***************************************************************************)
\* C13: in every Ship::tick that has a firing solution (t, aim_point), the
\* acceleration command issued is 1000 * aim_point, aim_point being the
\* intercept point relative to the ship's position.
C13_AccelerateTowardAimPoint ==
    (ticks > 0 /\ IsSome(tick.sol)) =>
        /\ IsSome(tick.accel)
        /\ FEq(Unwrap(tick.accel)[1], FMul(Unwrap(tick.sol)[2][1], F(1000)))
        /\ FEq(Unwrap(tick.accel)[2], FMul(Unwrap(tick.sol)[2][2], F(1000)))

(***************************************************************************)
(* Claims about the Kalman filter (checked under SpecKalman)               *)
(***************************************************************************)
\* The estimate is within tol_r of the true position and within tol_v of the
\* true velocity, coordinate by coordinate.
EstimateWithin(tol_r, tol_v) ==
    /\ FLt(FAbs(FSub(KalmanPosVel2d_position(Unwrap(kf))[1], truth.position[1])),
           tol_r)
    /\ FLt(FAbs(FSub(KalmanPosVel2d_position(Unwrap(kf))[2], truth.position[2])),
           tol_r)
    /\ FLt(FAbs(FSub(KalmanPosVel2d_velocity(Unwrap(kf))[1], truth.velocity[1])),
           tol_v)
    /\ FLt(FAbs(FSub(KalmanPosVel2d_velocity(Unwrap(kf))[2], truth.velocity[2])),
           tol_v)

\* The truth started at position r with the constant velocity v.
TruthFrom(r, v) == truth.init = r /\ truth.velocity = v

\* C14: a KalmanPosVel2d built with (1.0, 1.0, 0.1, 0.1), after ten
\* consecutive predict_and_update calls (and no predict call) with the exact
\* measurements of a truth, has its estimate within 0.001 in position and in velocity of a
\* truth at rest at (2, 3), and within 0.001 in position and 0.01 in velocity
\* of a truth that left (2, 3) with the velocity (10, 20).
C14_TenFusionsConverge ==
    (IsSome(kf) /\ fused = 10 /\ coasts = 0) =>
        /\ TruthFrom(V(2, 3), V(0, 0)) => EstimateWithin(FDec(1, -3), FDec(1, -3))
        /\ TruthFrom(V(2, 3), V(10, 20)) => EstimateWithin(FDec(1, -3), FDec(1, -2))

\* The tenth fusion of the moving truth done, with the estimate not yet exact.
C14_Witness ==
    /\ IsSome(kf)
    /\ fused = 10
    /\ coasts = 0
    /\ TruthFrom(V(2, 3), V(10, 20))
    /\ EstimateWithin(FDec(1, -3), FDec(1, -2))
    /\ ~EstimateWithin(FDec(1, -4), FDec(1, -3))

(***************************************************************************)
(* Claims about the order of the solver calls (checked under SpecTarget)   *)
(***************************************************************************)
\* The step is an update_firing_solution call, on its own or at the end of a
\* TrackedTarget::tick.
SolutionUpdated ==
    /\ kind \in {"Target", "TrackedTarget"}
    /\ tcall'.op \in {"update_firing_solution", "tick"}

\* The call ran the refiner alone, from the guess t_guess.
RefinedFrom(calls, t_guess) ==
    /\ Len(calls) = 1
    /\ calls[1][1] = "const_accel"
    /\ calls[1][2] = t_guess

\* The call ran the closed form, which found a time, and then the refiner
\* from that time.
SeededAndRefined(calls) ==
    /\ Len(calls) = 2
    /\ calls[1][1] = "const_vel"
    /\ IsSome(calls[1][2])
    /\ calls[2][1] = "const_accel"
    /\ calls[2][2] = Unwrap(calls[1][2])[1]

\* The call ran the closed form, which found no time, and nothing else.
SeedFailed(calls) ==
    /\ Len(calls) = 1
    /\ calls[1][1] = "const_vel"
    /\ calls[1][2] = None

\* C15 as stated: an update_firing_solution call with a cached
\* time_to_intercept runs the refiner alone, from the cached time; a call with
\* none cached runs the closed form first; and in both cases the refiner is
\* run before the call returns.
C15_SeedThenAlwaysRefine ==
    [][SolutionUpdated =>
          /\ IsSome(obj.time_to_intercept) =>
                 RefinedFrom(tcall'.calls, Unwrap(obj.time_to_intercept))
          /\ obj.time_to_intercept = None => SeededAndRefined(tcall'.calls)]_vars

\* C15 amended: an update_firing_solution call with a cached
\* time_to_intercept runs the refiner alone, from the cached time.  A call
\* with none cached runs the closed form first; if that finds a time the
\* refiner is run from it, and if it finds none the refiner is not run and
\* the call leaves time_to_intercept and intercept_point cleared.  A time is
\* written only after the refiner has run, and it is the refiner's result.
C15_SeedOnlyWhenNotCached ==
    [][SolutionUpdated =>
          /\ IsSome(obj.time_to_intercept) =>
                 RefinedFrom(tcall'.calls, Unwrap(obj.time_to_intercept))
          /\ obj.time_to_intercept = None =>
                 \/ SeededAndRefined(tcall'.calls)
                 \/ /\ SeedFailed(tcall'.calls)
                    /\ obj'.time_to_intercept = None
                    /\ obj'.intercept_point = None
          /\ IsSome(obj'.time_to_intercept) =>
                 /\ tcall'.calls[Len(tcall'.calls)][1] = "const_accel"
                 /\ obj'.time_to_intercept =
                        Some(tcall'.calls[Len(tcall'.calls)][3])]_vars

\* An update_firing_solution call that found a time cached and ran the
\* refiner from it, without the closed form.
C15_Witness ==
    /\ kind \in {"Target", "TrackedTarget"}
    /\ tcall.op \in {"update_firing_solution", "tick"}
    /\ Len(tcall.calls) = 1
    /\ tcall.calls[1][1] = "const_accel"
    /\ IsFinite(tcall.calls[1][2])
====
